---------------------------- MODULE Spec2Model ----------------------------
(***************************************************************************)
(* A model of the flupy examples: the FrenchDeck container                 *)
(* (fluent_python/french_deck.py), the Vector class                        *)
(* (fluent_python/vector.py) and the functions and the BingoCage class of  *)
(* tests/test_first_class_functions.py (factorial, reduce, tag, clip).     *)
(*                                                                         *)
(* Python values are modelled as follows.  A str is the sequence of its    *)
(* characters, each character a one-character TLA+ string, so that         *)
(* formatting, searching and stripping are computed character by           *)
(* character.  A list or tuple is a sequence (0-based Python index i is    *)
(* TLA+ index i + 1).  The dict **attrs of tag, whose order of insertion   *)
(* matters, is the sequence of its (key, value) items in that order; the   *)
(* dict suit_values, which is only looked up and measured, is a function.  *)
(* An int is an integer (Python ints do not overflow; the bounds keep      *)
(* every value inside TLC's range).  A raised exception is the record      *)
(* [kind |-> "raise", val |-> <exception class>].                          *)
(***************************************************************************)
EXTENDS Integers, Sequences, FiniteSets, Bags, TLC

VARIABLES
    ranks,          \* FrenchDeck.ranks (class attribute)
    suits,          \* FrenchDeck.suits (class attribute)
    suit_values,    \* FrenchDeck.suit_values (class attribute)
    _cards,         \* self._cards of the FrenchDeck under test
    v1, v2,         \* the two Vector objects under test
    _items,         \* self._items of the BingoCage under test
    items_arg,      \* the items that BingoCage was constructed from
    history,        \* what each pick from the cage so far returned or raised
    n,              \* the int the factorial functions are tried on
    results,        \* what each of them returned or raised for n, once called
    call,           \* the last call made: [name |-> ..., ...arguments]
    ret             \* what that call returned or raised: [kind |-> ..., val |-> ...]

class_vars == <<ranks, suits, suit_values>>
vector_vars == <<v1, v2>>
cage_vars == <<_items, items_arg, history>>
fact_vars == <<n, results>>

vars == <<class_vars, _cards, vector_vars, cage_vars, fact_vars, call, ret>>

\* Python's None, and an int where None may stand instead
None == [kind |-> "None"]
IntVal(i) == [kind |-> "int", val |-> i]

NoCall == [name |-> "none"]
NoValue == [kind |-> "none"]

Raise(exc) == [kind |-> "raise", val |-> exc]
Return(kind, val) == [kind |-> kind, val |-> val]

(***************************************************************************)
(* Builtins used by the examples.                                          *)
(***************************************************************************)

\* len(xs)
len(xs) == Len(xs)

\* xs[position] for an int position: negative positions count from the end,
\* a position outside the list raises IndexError.
list_getitem(xs, position) ==
    LET i == IF position < 0 THEN position + len(xs) ELSE position
    IN  IF i < 0 \/ i >= len(xs)
        THEN Raise("IndexError")
        ELSE Return("item", xs[i + 1])

\* A slice bound b (None or an int) clamped into 0..length as list slicing does
\* for a step of 1: None takes the default, a negative bound counts from the end.
slice_index(b, length, default) ==
    IF b.kind = "None" THEN default
    ELSE IF b.val < 0 THEN (IF b.val + length < 0 THEN 0 ELSE b.val + length)
    ELSE IF b.val > length THEN length ELSE b.val

\* xs[start:stop]: a new list
list_getslice(xs, start, stop) ==
    LET lo == slice_index(start, len(xs), 0)
        hi == slice_index(stop, len(xs), len(xs))
    IN  IF hi <= lo THEN <<>> ELSE SubSeq(xs, lo + 1, hi)

\* xs.index(x): the 0-based index of the first occurrence
list_index(xs, x) ==
    IF \E i \in 1..Len(xs) : xs[i] = x
    THEN Return("int", (CHOOSE i \in 1..Len(xs) :
                          xs[i] = x /\ \A j \in 1..(i - 1) : xs[j] # x) - 1)
    ELSE Raise("ValueError")

\* insertion of x into the list xs, sorted by key, after every element whose
\* key is not greater (stable).  key is the key function tabulated over the
\* elements: key[x] is key(x).
RECURSIVE insort(_, _, _)
insort(xs, x, key) ==
    IF xs = <<>> THEN <<x>>
    ELSE IF key[xs[Len(xs)]] <= key[x] THEN Append(xs, x)
    ELSE Append(insort(SubSeq(xs, 1, Len(xs) - 1), x, key), xs[Len(xs)])

\* sorted(xs, key=key): a new list, ascending by key, equal keys in their
\* original order
RECURSIVE sorted_builtin(_, _)
sorted_builtin(xs, key) ==
    IF xs = <<>> THEN <<>>
    ELSE insort(sorted_builtin(SubSeq(xs, 1, Len(xs) - 1), key), xs[Len(xs)], key)

(***************************************************************************)
(* fluent_python/french_deck.py                                            *)
(***************************************************************************)

Card(rank, suit) == [rank |-> rank, suit |-> suit]

\* ranks = [str(n) for n in range(2, 11)] + list('JQKA')
FrenchDeck_ranks ==
    <<"2", "3", "4", "5", "6", "7", "8", "9", "10">> \o <<"J", "Q", "K", "A">>

\* suits = 'spades diamonds clubs hearts'.split()
FrenchDeck_suits == <<"spades", "diamonds", "clubs", "hearts">>

\* suit_values = dict(spades=3, hearts=2, diamonds=1, clubs=0)
FrenchDeck_suit_values == [spades |-> 3, hearts |-> 2, diamonds |-> 1, clubs |-> 0]

\* Had the comprehension looped over the ranks first:
\* [Card(rank, suit) for rank in ranks for suit in suits]
RECURSIVE CardsRankMajor(_)
CardsRankMajor(r) ==
    IF r > Len(ranks) THEN <<>>
    ELSE [s \in 1..Len(suits) |-> Card(ranks[r], suits[s])] \o CardsRankMajor(r + 1)

FrenchDeck__init__RankMajor == CardsRankMajor(1)

\* [Card(rank, suit) for suit in suits for rank in ranks]: the outer loop
\* runs over the suits from position s on, the inner one over the ranks
RECURSIVE CardsFrom(_)
CardsFrom(s) ==
    IF s > Len(suits) THEN <<>>
    ELSE [r \in 1..Len(ranks) |-> Card(ranks[r], suits[s])] \o CardsFrom(s + 1)

\* FrenchDeck.__init__: the value of self._cards
FrenchDeck__init__ == CardsFrom(1)

\* FrenchDeck.__len__
FrenchDeck__len__(self_cards) == len(self_cards)

\* FrenchDeck.__getitem__ with an int position
FrenchDeck__getitem__(self_cards, position) == list_getitem(self_cards, position)

\* FrenchDeck.__getitem__ with slice(start, stop)
FrenchDeck__getslice__(self_cards, start, stop) ==
    list_getslice(self_cards, start, stop)

\* Iteration over a deck: the class defines no __iter__, so iter(deck) calls
\* __getitem__ with 0, 1, 2, ... until it raises IndexError.
RECURSIVE IterDeck(_, _)
IterDeck(self_cards, i) ==
    LET got == FrenchDeck__getitem__(self_cards, i)
    IN  IF got.kind = "raise" THEN <<>>
        ELSE <<got.val>> \o IterDeck(self_cards, i + 1)

\* Had sorting() weighted the suit instead of the rank
sorting_suit_major(card) ==
    LET rank_value == list_index(ranks, card.rank).val
    IN  rank_value + suit_values[card.suit] * Len(ranks)

\* FrenchDeck.sorting
sorting(card) ==
    LET rank_value == list_index(ranks, card.rank).val
    IN  rank_value * Cardinality(DOMAIN suit_values) + suit_values[card.suit]

\* FrenchDeck.sorted: the list it returns
FrenchDeck_sorted(self_cards) ==
    LET iterable == IterDeck(self_cards, 0)
    IN  sorted_builtin(iterable,
                       [c \in {iterable[i] : i \in 1..Len(iterable)} |-> sorting(c)])

(***************************************************************************)
(* The FrenchDeck under test                                               *)
(***************************************************************************)

\* How far past either end of the deck the positions tried by deck[i] reach
PosOver == 2

\* How far around 0, len(deck) and -len(deck) the bounds tried by deck[a:b] reach
SliceSpan == 1

Positions == (0 - len(_cards) - PosOver) .. (len(_cards) - 1 + PosOver)

SliceBounds ==
    {None} \cup
    {IntVal(base + d) : base \in {0, len(_cards), 0 - len(_cards)},
                     d \in (0 - SliceSpan)..SliceSpan}

\* A list handed back to the caller: obj tells whether it is a list object
\* made by the call ("new") or the deck's own list ("self._cards")
ReturnList(val, obj) == [kind |-> "list", val |-> val, obj |-> obj]

\* len(deck)
DeckLen ==
    /\ call' = [name |-> "__len__"]
    /\ ret' = Return("int", FrenchDeck__len__(_cards))
    /\ UNCHANGED <<class_vars, _cards, vector_vars, cage_vars, fact_vars>>

\* deck[position], position an int
DeckGetItem ==
    \E position \in Positions :
        /\ call' = [name |-> "__getitem__", position |-> IntVal(position)]
        /\ ret' = FrenchDeck__getitem__(_cards, position)
        /\ UNCHANGED <<class_vars, _cards, vector_vars, cage_vars, fact_vars>>

\* deck[start:stop]: list slicing builds a new list
DeckGetSlice ==
    \E start \in SliceBounds, stop \in SliceBounds :
        /\ call' = [name |-> "__getitem__",
                    position |-> [kind |-> "slice", start |-> start, stop |-> stop]]
        /\ ret' = ReturnList(FrenchDeck__getslice__(_cards, start, stop), "new")
        /\ UNCHANGED <<class_vars, _cards, vector_vars, cage_vars, fact_vars>>

\* Had sorted() sorted the deck's own list (self._cards.sort(key=...)) and
\* handed it out
DeckSortedInPlace ==
    /\ call' = [name |-> "sorted"]
    /\ _cards' = FrenchDeck_sorted(_cards)
    /\ ret' = ReturnList(_cards', "self._cards")
    /\ UNCHANGED <<class_vars, vector_vars, cage_vars, fact_vars>>

\* deck.sorted(): the builtin sorted() builds a new list from the iterable
DeckSorted ==
    /\ call' = [name |-> "sorted"]
    /\ ret' = ReturnList(FrenchDeck_sorted(_cards), "new")
    /\ UNCHANGED <<class_vars, _cards, vector_vars, cage_vars, fact_vars>>

\* The class attributes as the class body leaves them
ClassInit ==
    /\ ranks = FrenchDeck_ranks
    /\ suits = FrenchDeck_suits
    /\ suit_values = FrenchDeck_suit_values

\* No Vector under test
NoVectors == v1 = NoValue /\ v2 = NoValue

\* No BingoCage under test
NoCage == _items = <<>> /\ items_arg = <<>> /\ history = <<>>

\* No factorial function under test
NoFactorial == n = 0 /\ results = <<>>

\* deck = FrenchDeck()
DeckInit ==
    /\ ClassInit
    /\ _cards = FrenchDeck__init__
    /\ NoVectors
    /\ NoCage
    /\ NoFactorial
    /\ call = NoCall
    /\ ret = NoValue

DeckNext == DeckLen \/ DeckGetItem \/ DeckGetSlice \/ DeckSorted

DeckSpec == DeckInit /\ [][DeckNext]_vars

\* The 0-based positions of a list
Indices(xs) == 0..(Len(xs) - 1)

\* C1: a FrenchDeck holds exactly 52 pairwise distinct cards, the card at
\* position i being Card(ranks[i mod 13], suits[i div 13]) for the ranks
\* '2'..'10','J','Q','K','A' and the suits spades, diamonds, clubs, hearts;
\* len(deck) returns 52, deck[i] returns that card for every i in 0..51,
\* deck[0] is the 2 of spades and deck[-1] = deck[51] the ace of hearts.
C1_DeckIs52CardsSuitMajor ==
    LET rs == <<"2", "3", "4", "5", "6", "7", "8", "9", "10", "J", "Q", "K", "A">>
        ss == <<"spades", "diamonds", "clubs", "hearts">>
        card(i) == Card(rs[(i % 13) + 1], ss[(i \div 13) + 1])
    IN  /\ Len(_cards) = 52
        /\ \A i \in 0..51 : _cards[i + 1] = card(i)
        /\ \A i, j \in 1..Len(_cards) : i # j => _cards[i] # _cards[j]
        /\ {_cards[i] : i \in 1..Len(_cards)} =
               {Card(r, s) : r \in {rs[k] : k \in 1..13}, s \in {ss[k] : k \in 1..4}}
        /\ call.name = "__len__" => ret = Return("int", 52)
        /\ (call.name = "__getitem__" /\ call.position.kind = "int") =>
               LET i == call.position.val
               IN  /\ i \in 0..51 => ret = Return("item", card(i))
                   /\ i = 0 => ret.val = Card("2", "spades")
                   /\ i \in {-1, 51} => ret.val = Card("A", "hearts")

\* C1's case: deck[-1] was asked for and the ace of hearts came back
C1_Witness ==
    /\ call.name = "__getitem__"
    /\ call.position = IntVal(-1)
    /\ ret = Return("item", Card("A", "hearts"))

\* The order the claim gives the cards: by rank first, '2' lowest and 'A'
\* highest, then by suit, clubs < diamonds < hearts < spades
CardBefore(c, d) ==
    LET rs == <<"2", "3", "4", "5", "6", "7", "8", "9", "10", "J", "Q", "K", "A">>
        ss == <<"clubs", "diamonds", "hearts", "spades">>
        pos(xs, x) == CHOOSE k \in 1..Len(xs) : xs[k] = x
    IN  \/ pos(rs, c.rank) < pos(rs, d.rank)
        \/ c.rank = d.rank /\ pos(ss, c.suit) < pos(ss, d.suit)

\* C2: deck.sorted() returns a permutation of the deck's 52 cards in
\* strictly increasing order of sorting(card) = index_of_rank * 4 +
\* suit_value, which is the order by rank first and by suit (clubs <
\* diamonds < hearts < spades) within a rank; sorting takes each value in
\* 0..51 exactly once over the deck; the first card returned is the 2 of
\* clubs and the last the ace of spades.
C2_SortedByRankThenSuit ==
    /\ {sorting(_cards[i]) : i \in 1..Len(_cards)} = 0..51
    /\ \A i, j \in 1..Len(_cards) :
           i # j => sorting(_cards[i]) # sorting(_cards[j])
    /\ call.name = "sorted" =>
           /\ ret.kind = "list"
           /\ Len(ret.val) = 52
           /\ \A i \in 1..Len(_cards) :
                  Cardinality({j \in 1..Len(ret.val) : ret.val[j] = _cards[i]}) = 1
           /\ \A j \in 1..(Len(ret.val) - 1) :
                  /\ sorting(ret.val[j]) < sorting(ret.val[j + 1])
                  /\ CardBefore(ret.val[j], ret.val[j + 1])
           /\ \A j \in 1..Len(ret.val) : sorting(ret.val[j]) = j - 1
           /\ ret.val[1] = Card("2", "clubs")
           /\ ret.val[52] = Card("A", "spades")

\* C2's case: sorted() was called and returned the cards from the 2 of clubs
\* to the ace of spades, in another order than the deck's
C2_Witness ==
    /\ call.name = "sorted"
    /\ ret.val[1] = Card("2", "clubs")
    /\ ret.val[Len(ret.val)] = Card("A", "spades")
    /\ ret.val # _cards

\* C10: no operation of a FrenchDeck changes it: after any sequence of
\* len(deck), deck[i], deck[a:b] and deck.sorted() the deck holds the cards
\* it was constructed with, in construction order (len is 52 and deck[i] is
\* the same card for every i), the lists returned by slicing and sorted()
\* are new lists, never the deck's own, and the class attributes ranks,
\* suits and suit_values are as the class body set them.
C10_DeckNeverChanges ==
    /\ ranks = FrenchDeck_ranks
    /\ suits = FrenchDeck_suits
    /\ suit_values = FrenchDeck_suit_values
    /\ _cards = FrenchDeck__init__
    /\ FrenchDeck__len__(_cards) = 52
    /\ \A i \in Positions :
           FrenchDeck__getitem__(_cards, i) = FrenchDeck__getitem__(FrenchDeck__init__, i)
    /\ ret.kind = "list" => ret.obj = "new"

\* C10's case: sorted() returned the cards in another order and the deck
\* still starts with the 2 of spades
C10_Witness ==
    /\ call.name = "sorted"
    /\ ret.val # _cards
    /\ ret.val[1] # _cards[1]
    /\ _cards[1] = Card("2", "spades")


(***************************************************************************)
(* fluent_python/vector.py                                                 *)
(***************************************************************************)

\* Vector.__init__(self, x, y)
Vector(x, y) == [x |-> x, y |-> y]

\* Vector(): both parameters default to 0
VectorDefault == Vector(0, 0)

\* Had __add__ added self.x into both components
Vector__add__XTwice(self, other) ==
    LET x == self.x + other.x
        y == self.x + other.y
    IN  Vector(x, y)

\* Vector.__add__
Vector__add__(self, other) ==
    LET x == self.x + other.x
        y == self.y + other.y
    IN  Vector(x, y)

\* Had __mul__ scaled only x
Vector__mul__XOnly(self, scalar) == Vector(self.x * scalar, self.y)

\* Vector.__mul__
Vector__mul__(self, scalar) == Vector(self.x * scalar, self.y * scalar)

(***************************************************************************)
(* The Vectors under test                                                  *)
(***************************************************************************)

\* The coordinates tried run from -CoordBelow to CoordAbove
CoordBelow == 1
CoordAbove == 4

\* The scalars tried run from -ScalarBelow to ScalarAbove
ScalarBelow == 1
ScalarAbove == 3

Coords == (0 - CoordBelow)..CoordAbove
Scalars == (0 - ScalarBelow)..ScalarAbove
Vectors == {Vector(x, y) : x \in Coords, y \in Coords}

\* A Vector handed back to the caller: obj tells whether it is an object made
\* by the call ("new") or one of the operands
ReturnVector(val, obj) == [kind |-> "Vector", val |-> val, obj |-> obj]

\* self + other, for operands among v1 and v2
VectorAdd ==
    \E self \in {v1, v2}, other \in {v1, v2} :
        /\ call' = [name |-> "__add__", self |-> self, other |-> other]
        /\ ret' = ReturnVector(Vector__add__(self, other), "new")
        /\ UNCHANGED <<v1, v2>>
        /\ UNCHANGED <<class_vars, _cards, cage_vars, fact_vars>>

\* self * scalar, for self among v1 and v2
VectorMul ==
    \E self \in {v1, v2}, scalar \in Scalars :
        /\ call' = [name |-> "__mul__", self |-> self, scalar |-> scalar]
        /\ ret' = ReturnVector(Vector__mul__(self, scalar), "new")
        /\ UNCHANGED <<v1, v2>>
        /\ UNCHANGED <<class_vars, _cards, cage_vars, fact_vars>>

\* No FrenchDeck under test
NoDeck == _cards = <<>>

\* v1 = Vector(x1, y1); v2 = Vector(x2, y2)
VectorInit ==
    /\ ClassInit
    /\ NoDeck
    /\ NoCage
    /\ NoFactorial
    /\ v1 \in Vectors
    /\ v2 \in Vectors
    /\ call = NoCall
    /\ ret = NoValue

VectorNext == VectorAdd \/ VectorMul

VectorSpec == VectorInit /\ [][VectorNext]_vars

\* C3: v1 + v2 is a new Vector whose x is v1.x + v2.x and whose y is
\* v1.y + v2.y (Vector(2,4) + Vector(2,1) is Vector(4,5)); addition is
\* commutative and associative, and Vector(), which is (0,0), is its identity.
C3_AddIsElementwise ==
    call.name = "__add__" =>
        LET a == call.self
            b == call.other
        IN  /\ ret.kind = "Vector"
            /\ ret.obj = "new"
            /\ ret.val.x = a.x + b.x
            /\ ret.val.y = a.y + b.y
            /\ (a = Vector(2, 4) /\ b = Vector(2, 1)) => ret.val = Vector(4, 5)
            /\ ret.val = Vector__add__(b, a)
            /\ \A c \in Vectors :
                   Vector__add__(ret.val, c) = Vector__add__(a, Vector__add__(b, c))
            /\ VectorDefault = Vector(0, 0)
            /\ Vector__add__(a, VectorDefault) = a
            /\ Vector__add__(VectorDefault, a) = a

\* C3's case: Vector(2,4) + Vector(2,1) was evaluated and gave Vector(4,5)
C3_Witness ==
    /\ call.name = "__add__"
    /\ call.self = Vector(2, 4)
    /\ call.other = Vector(2, 1)
    /\ ret.val = Vector(4, 5)

\* C4: v * k is a new Vector(v.x * k, v.y * k) (Vector(3,4) * 3 is
\* Vector(9,12)), and multiplication distributes over addition:
\* (v + w) * k has the components of (v * k) + (w * k).
C4_MulIsElementwise ==
    call.name = "__mul__" =>
        LET v == call.self
            k == call.scalar
        IN  /\ ret.kind = "Vector"
            /\ ret.obj = "new"
            /\ ret.val.x = v.x * k
            /\ ret.val.y = v.y * k
            /\ (v = Vector(3, 4) /\ k = 3) => ret.val = Vector(9, 12)
            /\ \A w \in Vectors :
                   Vector__mul__(Vector__add__(v, w), k) =
                       Vector__add__(ret.val, Vector__mul__(w, k))

\* C4's case: Vector(3,4) * 3 was evaluated and gave Vector(9,12)
C4_Witness ==
    /\ call.name = "__mul__"
    /\ call.self = Vector(3, 4)
    /\ call.scalar = 3
    /\ ret.val = Vector(9, 12)


(***************************************************************************)
(* tests/test_first_class_functions.py: BingoCage                          *)
(***************************************************************************)

\* The elements of a list
Elements(xs) == {xs[i] : i \in 1..Len(xs)}

\* random.shuffle(xs): every arrangement of xs is a possible outcome
shuffle(xs) ==
    {[i \in 1..Len(xs) |-> xs[p[i]]] : p \in Permutations(1..Len(xs))}

\* Had pop() handed out the last item and left it in the list
list_peek(xs) ==
    IF xs = <<>>
    THEN [out |-> Raise("IndexError"), list |-> xs]
    ELSE [out |-> Return("item", xs[Len(xs)]), list |-> xs]

\* xs.pop(): removes and returns the last item; IndexError on an empty list.
\* out is what the call returns or raises, list is xs afterwards.
list_pop(xs) ==
    IF xs = <<>>
    THEN [out |-> Raise("IndexError"), list |-> xs]
    ELSE [out |-> Return("item", xs[Len(xs)]), list |-> SubSeq(xs, 1, Len(xs) - 1)]

\* raise LookupError('pick from empty BingoCage')
LookupError ==
    [kind |-> "raise", val |-> "LookupError", msg |-> "pick from empty BingoCage"]

\* Had pick() had no try/except around the pop
BingoCage_pick_no_except(self_items) == list_pop(self_items)

\* BingoCage.pick
BingoCage_pick(self_items) ==
    LET popped == list_pop(self_items)
    IN  IF popped.out = Raise("IndexError")
        THEN [out |-> LookupError, list |-> popped.list]
        ELSE popped

\* BingoCage.__call__
BingoCage__call__(self_items) == BingoCage_pick(self_items)

(***************************************************************************)
(* The BingoCage under test                                                *)
(***************************************************************************)

\* The items a cage is built from are ints in 0..MaxItem, at most MaxItems of them
MaxItem == 2
MaxItems == 3

\* How many picks are tried beyond the number of items
ExtraPicks == 2

RECURSIVE SeqsUpTo(_, _)
SeqsUpTo(S, k) ==
    IF k = 0 THEN {<<>>}
    ELSE LET shorter == SeqsUpTo(S, k - 1)
         IN  shorter \cup {Append(xs, x) : xs \in {ys \in shorter : Len(ys) = k - 1},
                                           x \in S}

ItemLists == SeqsUpTo(0..MaxItem, MaxItems)

\* bingo.pick()
Pick ==
    /\ Len(history) < Len(items_arg) + ExtraPicks
    /\ LET picked == BingoCage_pick(_items)
       IN  /\ _items' = picked.list
           /\ ret' = picked.out
           /\ history' = Append(history, picked.out)
    /\ call' = [name |-> "pick"]
    /\ UNCHANGED <<items_arg, class_vars, _cards, vector_vars, fact_vars>>

\* bingo()
Call ==
    /\ Len(history) < Len(items_arg) + ExtraPicks
    /\ LET picked == BingoCage__call__(_items)
       IN  /\ _items' = picked.list
           /\ ret' = picked.out
           /\ history' = Append(history, picked.out)
    /\ call' = [name |-> "__call__"]
    /\ UNCHANGED <<items_arg, class_vars, _cards, vector_vars, fact_vars>>

\* bingo = BingoCage(items): self._items = list(items), then shuffled
BingoInit ==
    /\ ClassInit
    /\ NoDeck
    /\ NoVectors
    /\ NoFactorial
    /\ items_arg \in ItemLists
    /\ _items \in shuffle(items_arg)
    /\ history = <<>>
    /\ call = NoCall
    /\ ret = NoValue

BingoNext == Pick \/ Call

BingoSpec == BingoInit /\ [][BingoNext]_vars

\* C5: a pick (or a call of the cage) with no items left raises
\* LookupError('pick from empty BingoCage'), not IndexError, and leaves the
\* cage empty; of the picks from a cage built from n items the first n raise
\* nothing and the (n+1)-th and every later one raise LookupError.
C5_EmptyCageRaisesLookupError ==
    LET size == Len(items_arg)
    IN  /\ \A k \in 1..Len(history) :
               /\ k <= size => history[k].kind = "item"
               /\ k > size => /\ history[k] = LookupError
                              /\ history[k].val # "IndexError"
        /\ Len(history) >= size => _items = <<>>
        /\ (history # <<>> /\ call.name \in {"pick", "__call__"}) =>
               ret = history[Len(history)]

\* C5's case: a cage built from three items was picked from five times, by
\* pick() and by calling it, and the fourth and fifth pick raised LookupError
C5_Witness ==
    /\ Len(items_arg) = 3
    /\ Len(history) = 5
    /\ history[3].kind = "item"
    /\ history[4] = LookupError
    /\ history[5] = LookupError
    /\ call.name = "__call__"
    /\ _items = <<>>

\* The bag (multiset) of the elements of a list
BagOf(xs) == [x \in Elements(xs) |-> Cardinality({i \in 1..Len(xs) : xs[i] = x})]

\* The items the picks so far returned, in order
Picked ==
    LET returned == SelectSeq(history, LAMBDA h : h.kind = "item")
    IN  [i \in 1..Len(returned) |-> returned[i].val]

\* C9: picks are draws without replacement: in every state the items
\* returned so far together with the items left in the cage are, as
\* multisets, the items the cage was built from, whatever the shuffle was;
\* every item returned is one of the initial items and takes the number of
\* items left down by one, and n picks from an n-item cage return a
\* permutation of the initial items.
C9_PicksAreDrawsWithoutReplacement ==
    /\ BagOf(Picked) (+) BagOf(_items) = BagOf(items_arg)
    /\ Elements(Picked) \subseteq Elements(items_arg)
    /\ Len(_items) = Len(items_arg) - Len(Picked)
    /\ Len(history) >= Len(items_arg) =>
           /\ Len(Picked) = Len(items_arg)
           /\ BagOf(Picked) = BagOf(items_arg)
           /\ Picked \in shuffle(items_arg)

\* C9's case: three distinct items were built into a cage in an order the
\* shuffle changed, and three picks returned all of them
C9_Witness ==
    /\ items_arg = <<0, 1, 2>>
    /\ Len(Picked) = 3
    /\ Len(history) = 3
    /\ Picked # items_arg
    /\ Picked # <<2, 1, 0>>
    /\ _items = <<>>


(***************************************************************************)
(* tests/test_first_class_functions.py: factorial, reduce                  *)
(***************************************************************************)

\* Had factorial stopped the recursion at n <= 2
RECURSIVE factorial_stops_at_2(_)
factorial_stops_at_2(k) == IF k <= 2 THEN 1 ELSE k * factorial_stops_at_2(k - 1)

\* factorial(n)
RECURSIVE factorial(_)
factorial(k) == IF k < 2 THEN 1 ELSE k * factorial(k - 1)

\* operator.mul
mul(a, b) == a * b

\* lambda a, b: a * b
lambda_a_b(a, b) == a * b

\* function(a, b) for the two functions that are passed to reduce
apply(function, a, b) ==
    CASE function = "mul" -> mul(a, b)
      [] function = "lambda" -> lambda_a_b(a, b)

\* range(start, stop)
range(start, stop) == [i \in 1..(stop - start) |-> start + i - 1]

\* The loop of functools.reduce: value = function(value, element) for every
\* element left in the iterator
RECURSIVE reduce_loop(_, _, _)
reduce_loop(function, value, it) ==
    IF it = <<>> THEN value
    ELSE reduce_loop(function, apply(function, value, Head(it)), Tail(it))

\* functools.reduce(function, sequence) with no initial value: the first
\* element starts the fold; TypeError on an empty sequence
reduce(function, sequence) ==
    IF sequence = <<>> THEN Raise("TypeError")
    ELSE Return("int", reduce_loop(function, Head(sequence), Tail(sequence)))

\* ugly_fact(n)
ugly_fact(k) == reduce("lambda", range(1, k + 1))

\* fact(n)
fact(k) == reduce("mul", range(1, k + 1))

\* list(map(factorial, range(stop)))
map_factorial(stop) == [i \in 1..Len(range(0, stop)) |-> factorial(range(0, stop)[i])]

(***************************************************************************)
(* The factorial functions under test                                      *)
(***************************************************************************)

\* The ints tried run from -MinusN to MaxN
MinusN == 2
MaxN == 10

\* factorial(n)
CallFactorial ==
    /\ "factorial" \notin DOMAIN results
    /\ call' = [name |-> "factorial", n |-> n]
    /\ ret' = Return("int", factorial(n))
    /\ results' = [f \in DOMAIN results \cup {"factorial"} |->
                      IF f = "factorial" THEN ret' ELSE results[f]]
    /\ UNCHANGED <<n, class_vars, _cards, vector_vars, cage_vars>>

\* fact(n)
CallFact ==
    /\ "fact" \notin DOMAIN results
    /\ call' = [name |-> "fact", n |-> n]
    /\ ret' = fact(n)
    /\ results' = [f \in DOMAIN results \cup {"fact"} |->
                      IF f = "fact" THEN ret' ELSE results[f]]
    /\ UNCHANGED <<n, class_vars, _cards, vector_vars, cage_vars>>

\* ugly_fact(n)
CallUglyFact ==
    /\ "ugly_fact" \notin DOMAIN results
    /\ call' = [name |-> "ugly_fact", n |-> n]
    /\ ret' = ugly_fact(n)
    /\ results' = [f \in DOMAIN results \cup {"ugly_fact"} |->
                      IF f = "ugly_fact" THEN ret' ELSE results[f]]
    /\ UNCHANGED <<n, class_vars, _cards, vector_vars, cage_vars>>

\* list(map(factorial, range(n + 1)))
CallMapFactorial ==
    /\ "map" \notin DOMAIN results
    /\ n >= 0
    /\ call' = [name |-> "map", stop |-> n + 1]
    /\ ret' = Return("list", map_factorial(n + 1))
    /\ results' = [f \in DOMAIN results \cup {"map"} |->
                      IF f = "map" THEN ret' ELSE results[f]]
    /\ UNCHANGED <<n, class_vars, _cards, vector_vars, cage_vars>>

FactorialInit ==
    /\ ClassInit
    /\ NoDeck
    /\ NoVectors
    /\ NoCage
    /\ n \in (0 - MinusN)..MaxN
    /\ results = [f \in {} |-> NoValue]
    /\ call = NoCall
    /\ ret = NoValue

FactorialNext == CallFactorial \/ CallFact \/ CallUglyFact \/ CallMapFactorial

FactorialSpec == FactorialInit /\ [][FactorialNext]_vars


\* The values the test expects of list(map(factorial, range(11)))
FactorialTable == <<1, 1, 2, 6, 24, 120, 720, 5040, 40320, 362880, 3628800>>

\* 1 * 2 * ... * k, multiplied from the left
RECURSIVE ProductUpTo(_)
ProductUpTo(k) == IF k <= 1 THEN 1 ELSE ProductUpTo(k - 1) * k

\* C7: factorial(n) is 1 for every n < 2 and n * factorial(n - 1) otherwise;
\* for every n >= 1 it is 1 * 2 * ... * n and equals both
\* reduce(mul, range(1, n + 1)) and reduce(lambda a, b: a * b, range(1, n + 1));
\* over 0..10 its values are 1, 1, 2, 6, 24, 120, 720, 5040, 40320, 362880,
\* 3628800.
C7_FactorialIsTheProduct ==
    /\ "factorial" \in DOMAIN results =>
           LET r == results["factorial"]
           IN  /\ r.kind = "int"
               /\ n < 2 => r.val = 1
               /\ n >= 2 => r.val = n * factorial(n - 1)
               /\ n >= 1 => r.val = ProductUpTo(n)
               /\ n \in 0..10 => r.val = FactorialTable[n + 1]
    /\ (n >= 1 /\ {"factorial", "fact"} \subseteq DOMAIN results) =>
           results["fact"] = Return("int", results["factorial"].val)
    /\ (n >= 1 /\ {"factorial", "ugly_fact"} \subseteq DOMAIN results) =>
           results["ugly_fact"] = Return("int", results["factorial"].val)
    /\ "map" \in DOMAIN results =>
           /\ Len(results["map"].val) = n + 1
           /\ \A i \in 0..n : i <= 10 => results["map"].val[i + 1] = FactorialTable[i + 1]
           /\ n = 10 => results["map"].val = FactorialTable

\* C7's case: factorial, fact, ugly_fact and the map were all evaluated for
\* n = 10 and the three functions returned 3628800
C7_Witness ==
    /\ n = 10
    /\ DOMAIN results = {"factorial", "fact", "ugly_fact", "map"}
    /\ results["factorial"].val = 3628800
    /\ results["fact"].val = 3628800
    /\ results["ugly_fact"].val = 3628800
    /\ results["map"].val[11] = 3628800


(***************************************************************************)
(* Strings: a str is the sequence of its characters                        *)
(***************************************************************************)

ascii_lowercase ==
    <<"a", "b", "c", "d", "e", "f", "g", "h", "i", "j", "k", "l", "m",
      "n", "o", "p", "q", "r", "s", "t", "u", "v", "w", "x", "y", "z">>

ascii_uppercase ==
    <<"A", "B", "C", "D", "E", "F", "G", "H", "I", "J", "K", "L", "M",
      "N", "O", "P", "Q", "R", "S", "T", "U", "V", "W", "X", "Y", "Z">>

digits == <<"0", "1", "2", "3", "4", "5", "6", "7", "8", "9">>

\* ord(c), the code point of a character, for the characters that occur
ord(c) ==
    CASE list_index(ascii_lowercase, c).kind = "int" ->
             list_index(ascii_lowercase, c).val + 97
      [] list_index(ascii_uppercase, c).kind = "int" ->
             list_index(ascii_uppercase, c).val + 65
      [] list_index(digits, c).kind = "int" -> list_index(digits, c).val + 48
      [] c = "\t" -> 9
      [] c = "\n" -> 10
      [] c = " " -> 32
      [] c = "\"" -> 34
      [] c = "-" -> 45
      [] c = "." -> 46
      [] c = "/" -> 47
      [] c = "<" -> 60
      [] c = "=" -> 61
      [] c = ">" -> 62

\* a < b for two str: the first differing character decides, a proper
\* prefix is smaller
RECURSIVE str_lt(_, _)
str_lt(a, b) ==
    IF b = <<>> THEN FALSE
    ELSE IF a = <<>> THEN TRUE
    ELSE IF Head(a) # Head(b) THEN ord(Head(a)) < ord(Head(b))
    ELSE str_lt(Tail(a), Tail(b))

\* a < b for two (str, str) tuples: the first differing component decides
tuple_lt(a, b) ==
    IF a[1] # b[1] THEN str_lt(a[1], b[1]) ELSE str_lt(a[2], b[2])

\* sep.join(parts)
RECURSIVE join(_, _)
join(sep, parts) ==
    IF parts = <<>> THEN <<>>
    ELSE IF Len(parts) = 1 THEN parts[1]
    ELSE parts[1] \o sep \o join(sep, Tail(parts))

\* insertion of the tuple x into the sorted list xs, after every element that
\* is not greater (stable)
RECURSIVE insort_tuples(_, _)
insort_tuples(xs, x) ==
    IF xs = <<>> THEN <<x>>
    ELSE IF ~tuple_lt(x, xs[Len(xs)]) THEN Append(xs, x)
    ELSE Append(insort_tuples(SubSeq(xs, 1, Len(xs) - 1), x), xs[Len(xs)])

\* Had the items not been sorted
unsorted_tuples(xs) == xs

\* sorted(xs) for a list of (str, str) tuples: a new list, ascending
RECURSIVE sorted_tuples(_)
sorted_tuples(xs) ==
    IF xs = <<>> THEN <<>>
    ELSE insort_tuples(sorted_tuples(SubSeq(xs, 1, Len(xs) - 1)), xs[Len(xs)])

\* d[k] = v for a dict d, the sequence of its (key, value) items in insertion
\* order: a key already there keeps its place and takes the new value, a new
\* key goes last
dict_setitem(d, k, v) ==
    IF \E i \in 1..Len(d) : d[i][1] = k
    THEN [i \in 1..Len(d) |-> IF d[i][1] = k THEN <<k, v>> ELSE d[i]]
    ELSE Append(d, <<k, v>>)

\* A str where None may stand instead
StrVal(s) == [kind |-> "str", val |-> s]

(***************************************************************************)
(* tests/test_first_class_functions.py: tag                                *)
(***************************************************************************)

\* ' %s="%s"' % (k, v)
format_attr(k, v) == <<" ">> \o k \o <<"=", "\"">> \o v \o <<"\"">>

\* '<%s%s />' % (name, attr_str)
format_empty(name, attr_str) == <<"<">> \o name \o attr_str \o <<" ", "/", ">">>

\* '<%s%s>%s</%s>' % (name, attr_str, c, name)
format_element(name, attr_str, c) ==
    <<"<">> \o name \o attr_str \o <<">">> \o c \o <<"<", "/">> \o name \o <<">">>

\* tag(name, *content, cls=cls, **attrs)
tag(name, content, cls, attrs) ==
    LET attrs1 == IF cls # None
                  THEN dict_setitem(attrs, <<"c", "l", "a", "s", "s">>, cls.val)
                  ELSE attrs
        items == sorted_tuples(attrs1)
        attr_str == IF attrs1 # <<>>
                    THEN join(<<>>, [i \in 1..Len(items) |->
                                        format_attr(items[i][1], items[i][2])])
                    ELSE <<>>
    IN  IF content # <<>>
        THEN join(<<"\n">>, [i \in 1..Len(content) |->
                                format_element(name, attr_str, content[i])])
        ELSE format_empty(name, attr_str)

(***************************************************************************)
(* The calls of tag that are tried                                         *)
(***************************************************************************)

\* At most MaxContent positional content arguments and MaxAttrs keyword
\* attributes are passed
MaxContent == 2
MaxAttrs == 2

TagNames ==
    {<<"p">>,
     <<"b", "r">>,
     <<"i", "m", "g">>}

ContentItems ==
    {<<"h", "e", "l", "l", "o">>,
     <<"w", "o", "r", "l", "d">>}

ClsValues ==
    {None,
     StrVal(<<"s", "i", "d", "e", "b", "a", "r">>),
     StrVal(<<"f", "r", "a", "m", "e", "d">>)}

\* The keyword arguments that are tried, as (key, value)
AttrItems ==
    {<<<<"i", "d">>,
       <<"3", "3">>>>,
     <<<<"s", "r", "c">>,
       <<"s", "u", "n", "s", "e", "t", ".", "j", "p", "g">>>>,
     <<<<"t", "i", "t", "l", "e">>,
       <<"S", "u", "n", "s", "e", "t", " ", "B", "o", "u", "l", "e", "v",
         "a", "r", "d">>>>,
     <<<<"c", "o", "n", "t", "e", "n", "t">>,
       <<"t", "e", "s", "t", "i", "n", "g">>>>,
     <<<<"c", "l", "a", "s", "s">>,
       <<"o", "l", "d">>>>}

\* The dicts **attrs can be: up to MaxAttrs items with distinct keys, in every
\* order of passing
AttrDicts ==
    {d \in SeqsUpTo(AttrItems, MaxAttrs) :
        \A i, j \in 1..Len(d) : i # j => d[i][1] # d[j][1]}

\* The calls of tag that are tried
TagCalls ==
    {[name |-> "tag", args |-> [name |-> name, content |-> content,
                                cls |-> cls, attrs |-> attrs]] :
        name \in TagNames, content \in SeqsUpTo(ContentItems, MaxContent),
        cls \in ClsValues, attrs \in AttrDicts}

\* tag(name, *content, cls=cls, **attrs): the call made returns
Tag ==
    /\ call.name = "tag"
    /\ ret = NoValue
    /\ ret' = Return("str", tag(call.args.name, call.args.content,
                                call.args.cls, call.args.attrs))
    /\ UNCHANGED <<call, class_vars, _cards, vector_vars, cage_vars, fact_vars>>

\* A call of tag is made
TagInit ==
    /\ ClassInit
    /\ NoDeck
    /\ NoVectors
    /\ NoCage
    /\ NoFactorial
    /\ call \in TagCalls
    /\ ret = NoValue

TagNext == Tag

TagSpec == TagInit /\ [][TagNext]_vars


\* The attributes a call of tag ends up with, as the claim describes them:
\* the keyword attributes, and 'class' with the value of cls when cls is not
\* None, in place of any attribute of that name
FinalAttrs(cls, attrs) ==
    LET class == <<"c", "l", "a", "s", "s">>
        passed == {attrs[i][1] : i \in 1..Len(attrs)}
        keys == IF cls # None THEN passed \cup {class} ELSE passed
    IN  [k \in keys |->
            IF k = class /\ cls # None THEN cls.val
            ELSE attrs[CHOOSE i \in 1..Len(attrs) : attrs[i][1] = k][2]]

\* ATTRS: ' key="value"' for every key of f, in ascending order of key
RECURSIVE AttrsText(_, _)
AttrsText(keys, f) ==
    IF keys = {} THEN <<>>
    ELSE LET k == CHOOSE least \in keys : \A other \in keys \ {least} : str_lt(least, other)
         IN  <<" ">> \o k \o <<"=", "\"">> \o f[k] \o <<"\"">>
                 \o AttrsText(keys \ {k}, f)

\* How many times the character c occurs in the str s
Count(s, c) == Cardinality({i \in 1..Len(s) : s[i] = c})

\* The calls test_arg_types makes, each with the str it expects
TagExamples ==
    {<<[name |-> <<"b", "r">>,
          content |-> <<>>,
          cls |-> None,
          attrs |-> <<>>],
       <<"<", "b", "r", " ", "/", ">">>>>,
     <<[name |-> <<"p">>,
          content |-> <<<<"h", "e", "l", "l", "o">>>>,
          cls |-> None,
          attrs |-> <<>>],
       <<"<", "p", ">", "h", "e", "l", "l", "o", "<", "/", "p", ">">>>>,
     <<[name |-> <<"p">>,
          content |-> <<<<"h", "e", "l", "l", "o">>, <<"w", "o", "r", "l", "d">>>>,
          cls |-> None,
          attrs |-> <<>>],
       <<"<", "p", ">", "h", "e", "l", "l", "o", "<", "/", "p", ">", "\n",
         "<", "p", ">", "w", "o", "r", "l", "d", "<", "/", "p", ">">>>>,
     <<[name |-> <<"p">>,
          content |-> <<<<"h", "e", "l", "l", "o">>>>,
          cls |-> None,
          attrs |-> <<<<<<"i", "d">>, <<"3", "3">>>>>>],
       <<"<", "p", " ", "i", "d", "=", "\"", "3", "3", "\"", ">", "h", "e",
         "l", "l", "o", "<", "/", "p", ">">>>>,
     <<[name |-> <<"p">>,
          content |-> <<<<"h", "e", "l", "l", "o">>, <<"w", "o", "r", "l", "d">>>>,
          cls |-> StrVal(<<"s", "i", "d", "e", "b", "a", "r">>),
          attrs |-> <<>>],
       <<"<", "p", " ", "c", "l", "a", "s", "s", "=", "\"", "s", "i", "d",
         "e", "b", "a", "r", "\"", ">", "h", "e", "l", "l", "o", "<", "/",
         "p", ">", "\n", "<", "p", " ", "c", "l", "a", "s", "s", "=", "\"",
         "s", "i", "d", "e", "b", "a", "r", "\"", ">", "w", "o", "r", "l",
         "d", "<", "/", "p", ">">>>>,
     <<[name |-> <<"i", "m", "g">>,
          content |-> <<>>,
          cls |-> None,
          attrs |-> <<<<<<"c", "o", "n", "t", "e", "n", "t">>, <<"t", "e", "s", "t", "i", "n", "g">>>>>>],
       <<"<", "i", "m", "g", " ", "c", "o", "n", "t", "e", "n", "t", "=",
         "\"", "t", "e", "s", "t", "i", "n", "g", "\"", " ", "/", ">">>>>}

\* tag(**attrs) of test_arg_types: title is passed before src
TagImgCall ==
    [name |-> <<"i", "m", "g">>,
     content |-> <<>>,
     cls |-> StrVal(<<"f", "r", "a", "m", "e", "d">>),
     attrs |-> <<<<<<"t", "i", "t", "l", "e">>, <<"S", "u", "n", "s", "e", "t", " ", "B", "o",
                             "u", "l", "e", "v", "a", "r", "d">>>>,
                <<<<"s", "r", "c">>, <<"s", "u", "n", "s", "e", "t", ".", "j", "p",
                             "g">>>>>>]

\* '<img class="framed" src="sunset.jpg" title="Sunset Boulevard" />'
TagImgText ==
    <<"<", "i", "m", "g", " ", "c", "l", "a", "s", "s", "=", "\"", "f", "r",
      "a", "m", "e", "d", "\"", " ", "s", "r", "c", "=", "\"", "s", "u", "n",
      "s", "e", "t", ".", "j", "p", "g", "\"", " ", "t", "i", "t", "l", "e",
      "=", "\"", "S", "u", "n", "s", "e", "t", " ", "B", "o", "u", "l", "e",
      "v", "a", "r", "d", "\"", " ", "/", ">">>

\* C6: tag with no content returns '<name ATTRS />'; with k >= 1 content
\* items it returns the k strings '<name ATTRS>c</name>', one per item in the
\* order given, joined by newlines.  ATTRS is empty without attributes and
\* otherwise ' key="value"' for every attribute in ascending order of key,
\* whatever the order of passing; a cls that is not None is the attribute
\* 'class' and replaces an attribute of that name; other keywords (content=)
\* are attributes.
C6_TagText ==
    (call.name = "tag" /\ ret # NoValue) =>
        LET a == call.args
            f == FinalAttrs(a.cls, a.attrs)
            ATTRS == AttrsText(DOMAIN f, f)
            open == <<"<">> \o a.name \o ATTRS
            element(c) == open \o <<">">> \o c \o <<"<", "/">> \o a.name \o <<">">>
            first[k \in 1..Len(a.content)] ==
                IF k = 1 THEN element(a.content[1])
                ELSE first[k - 1] \o <<"\n">> \o element(a.content[k])
        IN  /\ ret.kind = "str"
            /\ a.content = <<>> => ret.val = open \o <<" ", "/", ">">>
            /\ a.content # <<>> =>
                   /\ ret.val = first[Len(a.content)]
                   /\ Count(ret.val, "\n") = Len(a.content) - 1
            /\ (a.cls = None /\ a.attrs = <<>>) => ATTRS = <<>>
            /\ Count(ret.val, "=") =
                   (IF a.content = <<>> THEN 1 ELSE Len(a.content)) * Cardinality(DOMAIN f)
            /\ \A ex \in TagExamples : a = ex[1] => ret.val = ex[2]
            /\ a = TagImgCall => ret.val = TagImgText

\* C6's case: the call with title passed before src and cls='framed'
\* returned the attributes in the order class, src, title
C6_Witness ==
    /\ call.name = "tag"
    /\ call.args = TagImgCall
    /\ ret = Return("str", TagImgText)


(***************************************************************************)
(* tests/test_first_class_functions.py: clip                               *)
(***************************************************************************)

\* The greatest element of a non-empty set of ints
Max(S) == CHOOSE m \in S : \A other \in S : other <= m

\* Had the search been text.find: the lowest index of the character in
\* text[start:end], -1 when it is not there
str_find(text, char, start, end) ==
    LET lo == slice_index(start, len(text), 0)
        hi == slice_index(end, len(text), len(text))
        found == {i \in lo..(hi - 1) : text[i + 1] = char}
    IN  IF found = {} THEN -1 ELSE CHOOSE m \in found : \A other \in found : m <= other

\* text.rfind(char, start, end) for a one-character char: the highest index
\* of char in text[start:end], whose bounds (None or an int) are read as
\* slice bounds, -1 when it is not there
str_rfind(text, char, start, end) ==
    LET lo == slice_index(start, len(text), 0)
        hi == slice_index(end, len(text), len(text))
        found == {i \in lo..(hi - 1) : text[i + 1] = char}
    IN  IF found = {} THEN -1 ELSE Max(found)

\* c.isspace() for the characters that occur
isspace(c) == c \in {" ", "\t", "\n"}

\* text.rstrip(): text without its trailing whitespace
RECURSIVE str_rstrip(_)
str_rstrip(text) ==
    IF text = <<>> THEN text
    ELSE IF isspace(text[Len(text)]) THEN str_rstrip(SubSeq(text, 1, Len(text) - 1))
    ELSE text

\* clip(text, max_len): end_found is None or the end the search found
clip(text, max_len) ==
    LET space_before == str_rfind(text, " ", IntVal(0), IntVal(max_len))
        space_after == str_rfind(text, " ", IntVal(max_len), None)
        end_found == IF len(text) > max_len
                     THEN IF space_before >= 0 THEN IntVal(space_before)
                          ELSE IF space_after >= 0 THEN IntVal(space_after)
                          ELSE None
                     ELSE None
        end == IF end_found = None THEN IntVal(len(text)) ELSE end_found
    IN  str_rstrip(list_getslice(text, None, end))

\* The default of max_len
clip_max_len == 80

(***************************************************************************)
(* The calls of clip that are tried                                        *)
(***************************************************************************)

\* The texts tried have at most MaxTextLen characters; the values of max_len
\* tried run from -(MaxTextLen + LenOver) to MaxTextLen + LenOver
MaxTextLen == 4
LenOver == 1

\* A letter, the space, and a whitespace character that is no space
TextChars == {"a", " ", "\t"}

ClipCalls ==
    {[name |-> "clip", text |-> text, max_len |-> max_len] :
        text \in SeqsUpTo(TextChars, MaxTextLen),
        max_len \in ((0 - MaxTextLen - LenOver)..(MaxTextLen + LenOver))
                        \cup {clip_max_len}}

\* clip(text, max_len): the call made returns
Clip ==
    /\ call.name = "clip"
    /\ ret = NoValue
    /\ ret' = Return("str", clip(call.text, call.max_len))
    /\ UNCHANGED <<call, class_vars, _cards, vector_vars, cage_vars, fact_vars>>

\* A call of clip is made
ClipInit ==
    /\ ClassInit
    /\ NoDeck
    /\ NoVectors
    /\ NoCage
    /\ NoFactorial
    /\ call \in ClipCalls
    /\ ret = NoValue

ClipNext == Clip

ClipSpec == ClipInit /\ [][ClipNext]_vars

\* What the claim says of a call clip(text, max_len) that returned out: the
\* cut position is len(text) when len(text) <= max_len, otherwise the last
\* space at an index < max_len, or else the last space at an index >=
\* max_len, or else len(text); out is text up to the cut position without its
\* trailing whitespace, hence a prefix of text that does not end in a space;
\* and out is shorter than max_len when a too-long text has a space at an
\* index < max_len.
ClipAsClaimed(text, max_len, out) ==
    LET spaces == {i \in 0..(Len(text) - 1) : text[i + 1] = " "}
        before == {i \in spaces : i < max_len}
        after == {i \in spaces : i >= max_len}
        cut == IF Len(text) <= max_len THEN Len(text)
               ELSE IF before # {} THEN Max(before)
               ELSE IF after # {} THEN Max(after)
               ELSE Len(text)
        whitespace == {" ", "\t", "\n"}
    IN  /\ Len(out) <= cut
        /\ \A i \in 1..Len(out) : out[i] = text[i]
        /\ \A i \in (Len(out) + 1)..cut : text[i] \in whitespace
        /\ out # <<>> => out[Len(out)] \notin whitespace
        /\ out # <<>> => out[Len(out)] # " "
        /\ (Len(text) > max_len /\ before # {}) => Len(out) < max_len

\* C8 as stated, for every int max_len: clip(text, max_len) is text cut as the
\* claim says (see ClipAsClaimed).
C8_ClipAsStated ==
    (call.name = "clip" /\ ret # NoValue) =>
        ClipAsClaimed(call.text, call.max_len, ret.val)

\* C8, for max_len >= 0: clip(text, max_len) is text cut at the last space at
\* an index < max_len, or else at the last space at an index >= max_len, or
\* not at all (also when len(text) <= max_len), without its trailing
\* whitespace: a prefix of text that does not end in a space and is shorter
\* than max_len when a too-long text has a space among its first max_len
\* characters.
C8_ClipForNonNegativeMaxLen ==
    (call.name = "clip" /\ ret # NoValue /\ call.max_len >= 0) =>
        ClipAsClaimed(call.text, call.max_len, ret.val)

\* C8's case: a text too long for max_len = 3 with spaces before and after
\* index 3 was cut at the last space before it
C8_Witness ==
    /\ call.name = "clip"
    /\ call.text = <<"a", " ", " ", "a">>
    /\ call.max_len = 3
    /\ ret = Return("str", <<"a">>)

====
